---------------------------- MODULE Spec2Model ----------------------------
(***************************************************************************)
(* Boolean negation of the expression language (expression/not.rs):        *)
(* construction with its type check, scalar and batch resolution, the      *)
(* static type definition and the NonBoolean diagnostic; and the New Relic *)
(* metrics model conversion (sinks/new_relic/model.rs).                    *)
(***************************************************************************)
EXTENDS Integers, Sequences, FiniteSets

(* ---------------------------- bounds ----------------------------------- *)
\* number of records (and slots) of a batch
MaxRecords == 3
\* last byte position of the source text the spans point into
MaxPos == 3
\* number of events handed to one conversion
MaxEvents == 2

VARIABLES
    \* ---- resolution of a constructed Not node --------------------------
    inner_type_def,     \* static TypeDef of the child (self.inner)
    records,            \* the batch: record index -> record
    selection_vector,   \* the indices resolve_batch is called with
    resolved_values,    \* ctx.resolved_values, one slot per record
    pre_values,         \* the buffer as it was when resolve_batch was called
    pc,                 \* position of the call in progress
    pos,                \* position in selection_vector (1-based)
    resolved,           \* what `resolved.read()` returned for the current index
    scalar,             \* outcome of the last scalar resolve
    accesses,           \* slot accesses of the call so far, in order
    \* ---- construction and diagnostics ----------------------------------
    node,               \* the operand handed to Not::new, with its span
    not_span,           \* the span of the `!`
    built,              \* what Not::new returned
    out,                \* the last method call on `built` and what it returned
    \* ---- New Relic metrics model ---------------------------------------
    buf_events,         \* the events handed to try_from
    converted           \* what try_from returned

vars == << inner_type_def, records, selection_vector, resolved_values,
           pre_values, pc, pos, resolved, scalar, accesses,
           node, not_span, built, out, buf_events, converted >>

resolveVars == << inner_type_def, records, selection_vector, resolved_values,
                  pre_values, pc, pos, resolved, scalar, accesses >>
newVars == << node, not_span, built, out >>
metricVars == << buf_events, converted >>

None == [tag |-> "None"]
\* no method has been called yet
NoCall == [method |-> "none"]

(* ---------------------------- values ----------------------------------- *)
Boolean(b) == [kind |-> "boolean", b |-> b]
Bytes(s) == [kind |-> "bytes", s |-> s]
Integer(n) == [kind |-> "integer", n |-> n]
Float(f) == [kind |-> "float", f |-> f]
Object(m) == [kind |-> "object", m |-> m]
Null == [kind |-> "null"]

\* Resolved = Result<Value, ExpressionError>
Ok(v) == [tag |-> "Ok", val |-> v]
Err(e) == [tag |-> "Err", err |-> e]

Range(s) == { s[x] : x \in DOMAIN s }

(* ---------------------------- type system ------------------------------ *)
KindNames == {"boolean", "bytes", "integer"}
\* a Kind is the set of shapes a value may take
Kinds == (SUBSET KindNames) \ {{}}
TypeDefs == [kind : Kinds, fallible : BOOLEAN]

\* TypeDef::boolean(): exactly boolean, infallible
TypeDef_boolean == [kind |-> {"boolean"}, fallible |-> FALSE]
with_fallibility(td, fallible) == [td EXCEPT !.fallible = fallible]
is_fallible(td) == td.fallible
\* true iff the possible shapes are exactly boolean
is_boolean(td) == td.kind = {"boolean"}

(* ---------------------------- Not: resolution -------------------------- *)
\* Value::try_boolean: the boolean, or the Expected error naming what it got
try_boolean(v) ==
    IF v.kind = "boolean" THEN Ok(v.b)
    ELSE Err([variant |-> "Expected", expected |-> "boolean", got |-> v.kind])

\* The failure a fallible child produces on a record it cannot handle
InnerFailure == [variant |-> "Inner", message |-> "child failed"]

\* self.inner.resolve(ctx): the child reads field `a` of the record; a
\* fallible child fails where the field is null, an infallible one yields
\* whatever the field holds
inner_resolve(td, record) ==
    IF td.fallible /\ record.a = Null THEN Err(InnerFailure) ELSE Ok(record.a)

\* Not::resolve: Ok((!self.inner.resolve(ctx)?.try_boolean()?).into())
resolve_unnegated(td, record) ==
    LET r == inner_resolve(td, record) IN
    IF r.tag = "Err" THEN r
    ELSE LET b == try_boolean(r.val) IN
         IF b.tag = "Err" THEN b ELSE Ok(Boolean(b.val))

resolve(td, record) ==
    LET r == inner_resolve(td, record) IN
    IF r.tag = "Err" THEN r
    ELSE LET b == try_boolean(r.val) IN
         IF b.tag = "Err" THEN b ELSE Ok(Boolean(~ b.val))

\* the closure of resolve_batch applied to what was read from the slot:
\* (|| Ok((!unsafe { resolved.read() }?.try_boolean()?).into()))()
closure_rewrap(read) ==
    IF read.tag = "Err"
    THEN Err([variant |-> "Expected", expected |-> "boolean", got |-> "error"])
    ELSE LET b == try_boolean(read.val) IN
         IF b.tag = "Err" THEN b ELSE Ok(Boolean(~ b.val))

closure_unchecked(read) ==
    IF read.tag = "Err" THEN read
    ELSE IF read.val.kind = "boolean" THEN Ok(Boolean(~ read.val.b))
         ELSE Ok(read.val)

closure(read) ==
    IF read.tag = "Err" THEN read
    ELSE LET b == try_boolean(read.val) IN
         IF b.tag = "Err" THEN b ELSE Ok(Boolean(~ b.val))

\* `for index in selection_vector` / `ctx.resolved_values[*index]`
loop_index_position(sv, p) == p - 1

loop_index(sv, p) == sv[p]

\* Not::type_def
type_def_infallible(td) == TypeDef_boolean

type_def(td) == with_fallibility(TypeDef_boolean, is_fallible(td))

(* ---------------------------- inputs ----------------------------------- *)
Indices == 0 .. (MaxRecords - 1)
FieldValues == {Boolean(TRUE), Boolean(FALSE), Bytes("x"), Null}
Records == [a : FieldValues]
\* what the buffer may hold before the call: left by an earlier pass
PriorValues == {Ok(Null), Err([variant |-> "Inner", message |-> "earlier pass"])}

\* ordered sequences of distinct in-bounds indices
RECURSIVE SeqsOver(_, _)
SeqsOver(S, n) ==
    IF n = 0 THEN {<< >>}
    ELSE LET shorter == SeqsOver(S, n - 1) IN
         shorter \cup { Append(s, x) : s \in { t \in shorter : Len(t) = n - 1 },
                                        x \in S }
SelectionVectors ==
    { s \in SeqsOver(Indices, MaxRecords) : Cardinality(Range(s)) = Len(s) }

(* ---------------------------- Not: the calls --------------------------- *)
Access(who, op, index) == [who |-> who, op |-> op, index |-> index]

\* the state the resolution variables rest in while nothing is resolved
ResolveIdle ==
    /\ inner_type_def = TypeDef_boolean
    /\ records = [i \in Indices |-> [a |-> Null]]
    /\ selection_vector = << >>
    /\ resolved_values = [i \in Indices |-> Ok(Null)]
    /\ pre_values = resolved_values
    /\ pc = "off"
    /\ pos = 1
    /\ resolved = None
    /\ scalar = None
    /\ accesses = << >>

\* a constructed Not node (its child is statically exactly boolean), a batch
\* of records, a buffer and a selection vector
InitResolve ==
    /\ inner_type_def \in { td \in TypeDefs : is_boolean(td) }
    /\ records \in [Indices -> Records]
    /\ selection_vector \in SelectionVectors
    /\ \E prior \in PriorValues : resolved_values = [i \in Indices |-> prior]
    /\ pre_values = resolved_values
    /\ pc = "idle"
    /\ pos = 1
    /\ resolved = None
    /\ scalar = None
    /\ accesses = << >>

\* Not::resolve on record i alone
Resolve(i) ==
    /\ pc = "idle"
    /\ scalar' = [index |-> i, result |-> resolve(inner_type_def, records[i])]
    /\ pc' = "scalar"
    /\ UNCHANGED << inner_type_def, records, selection_vector, resolved_values,
                    pre_values, pos, resolved, accesses >>
    /\ UNCHANGED << newVars, metricVars >>

\* Not::resolve_batch is entered and calls self.inner.resolve_batch
ResolveBatch ==
    /\ pc = "idle"
    /\ pc' = "inner"
    /\ pos' = 1
    /\ UNCHANGED << inner_type_def, records, selection_vector, resolved_values,
                    pre_values, resolved, scalar, accesses >>
    /\ UNCHANGED << newVars, metricVars >>

\* the child writes its result for the next selected index
InnerResolveBatch ==
    /\ pc = "inner"
    /\ pos <= Len(selection_vector)
    /\ LET index == selection_vector[pos] IN
        /\ resolved_values' = [resolved_values EXCEPT
                ![index] = inner_resolve(inner_type_def, records[index])]
        /\ accesses' = Append(accesses, Access("inner", "write", index))
    /\ pos' = pos + 1
    /\ UNCHANGED << inner_type_def, records, selection_vector, pre_values, pc,
                    resolved, scalar >>
    /\ UNCHANGED << newVars, metricVars >>

\* the child's resolve_batch returns; the loop over the selection starts
InnerReturnEarly ==
    /\ pc = "inner"
    /\ pc' = "loop"
    /\ pos' = 1
    /\ UNCHANGED << inner_type_def, records, selection_vector, resolved_values,
                    pre_values, resolved, scalar, accesses >>
    /\ UNCHANGED << newVars, metricVars >>

InnerReturn ==
    /\ pc = "inner"
    /\ pos > Len(selection_vector)
    /\ pc' = "loop"
    /\ pos' = 1
    /\ UNCHANGED << inner_type_def, records, selection_vector, resolved_values,
                    pre_values, resolved, scalar, accesses >>
    /\ UNCHANGED << newVars, metricVars >>

\* unsafe { resolved.read() } of the slot of the current index
Read ==
    /\ pc = "loop"
    /\ pos <= Len(selection_vector)
    /\ LET index == loop_index(selection_vector, pos) IN
        /\ index \in Indices
        /\ resolved' = resolved_values[index]
        /\ accesses' = Append(accesses, Access("not", "read", index))
    /\ pc' = "write"
    /\ UNCHANGED << inner_type_def, records, selection_vector, resolved_values,
                    pre_values, pos, scalar >>
    /\ UNCHANGED << newVars, metricVars >>

\* unsafe { resolved.write(result) } into the same slot
Write ==
    /\ pc = "write"
    /\ LET index == loop_index(selection_vector, pos) IN
        /\ resolved_values' = [resolved_values EXCEPT ![index] = closure(resolved)]
        /\ accesses' = Append(accesses, Access("not", "write", index))
    /\ resolved' = None
    /\ pos' = pos + 1
    /\ pc' = "loop"
    /\ UNCHANGED << inner_type_def, records, selection_vector, pre_values, scalar >>
    /\ UNCHANGED << newVars, metricVars >>

\* the loop is exhausted and resolve_batch returns
Return ==
    /\ pc = "loop"
    /\ pos > Len(selection_vector)
    /\ pc' = "done"
    /\ UNCHANGED << inner_type_def, records, selection_vector, resolved_values,
                    pre_values, pos, resolved, scalar, accesses >>
    /\ UNCHANGED << newVars, metricVars >>

(* ---------------------------- Not: construction ------------------------ *)
\* half-open byte ranges of the source text
Spans == { sp \in [start : 0 .. MaxPos, end : 0 .. MaxPos] : sp.start < sp.end }
\* Node<Expr>: an operand, known here by its static TypeDef, and its span
Nodes == [expr : [type_def : TypeDefs], span : Spans]

\* Not::new
new_contains(n, nspan) ==
    IF "boolean" \notin n.expr.type_def.kind
    THEN Err([variant |-> [name |-> "NonBoolean", kind |-> n.expr.type_def.kind],
              not_span |-> nspan, expr_span |-> n.span])
    ELSE Ok([inner |-> n.expr])

new(n, nspan) ==
    IF ~ is_boolean(n.expr.type_def)
    THEN Err([variant |-> [name |-> "NonBoolean", kind |-> n.expr.type_def.kind],
              not_span |-> nspan, expr_span |-> n.span])
    ELSE Ok([inner |-> n.expr])

\* Display of a Kind: the names of its shapes joined by " or "
KindOrder == << "bytes", "integer", "boolean" >>
ShapeName(k) == IF k = "bytes" THEN "string" ELSE k
RECURSIVE KindJoin(_, _)
KindJoin(kind, from) ==
    IF from > Len(KindOrder) THEN ""
    ELSE LET rest == KindJoin(kind, from + 1) IN
         IF KindOrder[from] \notin kind THEN rest
         ELSE IF rest = "" THEN ShapeName(KindOrder[from])
         ELSE ShapeName(KindOrder[from]) \o " or " \o rest
KindDisplay(kind) == KindJoin(kind, 1)

Label_primary(message, span) == [role |-> "primary", message |-> message, span |-> span]
Label_context(message, span) == [role |-> "context", message |-> message, span |-> span]
Note_CoerceValue == [note |-> "CoerceValue"]
Note_SeeDocs(title, url) == [note |-> "SeeDocs", title |-> title, url |-> url]
Urls_func_docs(anchor) == [docs |-> "functions", anchor |-> anchor]

\* DiagnosticMessage for Error
code(error) == CASE error.variant.name = "NonBoolean" -> 660

labels_swapped(error) ==
    CASE error.variant.name = "NonBoolean" ->
        << Label_context("this expression resolves to "
                            \o KindDisplay(error.variant.kind), error.expr_span),
           Label_primary("negation only works on boolean values", error.not_span) >>

labels(error) ==
    CASE error.variant.name = "NonBoolean" ->
        << Label_primary("negation only works on boolean values", error.not_span),
           Label_context("this expression resolves to "
                            \o KindDisplay(error.variant.kind), error.expr_span) >>

notes(error) ==
    CASE error.variant.name = "NonBoolean" ->
        << Note_CoerceValue,
           Note_SeeDocs("type coercion", Urls_func_docs("#coerce-functions")) >>

\* the state the construction variables rest in while nothing is constructed
NewIdle ==
    /\ node = [expr |-> [type_def |-> TypeDef_boolean],
               span |-> [start |-> 1, end |-> 2]]
    /\ not_span = [start |-> 0, end |-> 1]
    /\ built = None
    /\ out = NoCall

\* `!` followed, not necessarily at once, by its operand
InitNew ==
    /\ node \in Nodes
    /\ not_span \in { sp \in Spans : sp.end = sp.start + 1 /\ sp.end <= node.span.start }
    /\ built = None
    /\ out = NoCall

New ==
    /\ built = None
    /\ built' = new(node, not_span)
    /\ UNCHANGED << node, not_span, out >>
    /\ UNCHANGED << resolveVars, metricVars >>

\* Not::type_def of the constructed node
TypeDef ==
    /\ built.tag = "Ok"
    /\ out' = [method |-> "type_def", ret |-> type_def(built.val.inner.type_def)]
    /\ UNCHANGED << node, not_span, built >>
    /\ UNCHANGED << resolveVars, metricVars >>

Code ==
    /\ built.tag = "Err"
    /\ out' = [method |-> "code", ret |-> code(built.err)]
    /\ UNCHANGED << node, not_span, built >>
    /\ UNCHANGED << resolveVars, metricVars >>

Labels ==
    /\ built.tag = "Err"
    /\ out' = [method |-> "labels", ret |-> labels(built.err)]
    /\ UNCHANGED << node, not_span, built >>
    /\ UNCHANGED << resolveVars, metricVars >>

Notes ==
    /\ built.tag = "Err"
    /\ out' = [method |-> "notes", ret |-> notes(built.err)]
    /\ UNCHANGED << node, not_span, built >>
    /\ UNCHANGED << resolveVars, metricVars >>

(* ---------------------------- New Relic metrics model ------------------ *)
Some(x) == [tag |-> "Some", val |-> x]

\* f64 values a gauge or counter may carry
Floats == {"1.5", "NaN"}
MetricValues == [variant : {"Gauge", "Counter"}, value : Floats]
                    \cup {[variant |-> "Set"]}
Metrics == [type : {"Metric"},
            name : {"m"},
            tags : {None, Some([t \in {"host"} |-> "h"])},
            value : MetricValues,
            kind : {"Incremental", "Absolute"},
            timestamp : {None, Some(10)},
            interval_ms : {None, Some(1000)}]
Events == Metrics \cup {[type |-> "Log"]}
\* what SystemTime::now() may answer, in seconds
Nows == {20}

\* HashMap::insert
Insert(m, key, value) ==
    [x \in (DOMAIN m) \cup {key} |-> IF x = key THEN value ELSE m[x]]
EmptyMap == [x \in {} |-> None]

\* NotNan::new
NotNan_new(f) == IF f = "NaN" THEN Err("NaN") ELSE Ok(f)

\* lines 53-75: the entry after the gauge/counter block, or the NaN error
metric_data_values(metric, now) ==
    IF metric.value.variant \in {"Gauge", "Counter"}
    THEN IF NotNan_new(metric.value.value).tag = "Err"
         THEN Err("NaN value not supported")
         ELSE LET named == Insert(EmptyMap, "name", Bytes(metric.name))
                  valued == Insert(named, "value",
                                   Float(NotNan_new(metric.value.value).val))
                  stamped == Insert(valued, "timestamp",
                                    IF metric.timestamp.tag = "Some"
                                    THEN Integer(metric.timestamp.val)
                                    ELSE Integer(now))
              IN Ok(IF metric.tags.tag = "Some"
                    THEN Insert(stamped, "attributes", Object(metric.tags.val))
                    ELSE stamped)
    ELSE Ok(EmptyMap)

\* lines 77-99: the match on (value, kind); "continue" skips the push
metric_data_typed(metric, metric_data) ==
    IF metric.value.variant = "Counter" /\ metric.kind = "Incremental"
    THEN IF metric.interval_ms.tag = "Some"
         THEN [step |-> "push",
               data |-> Insert(Insert(metric_data, "interval.ms",
                                      Integer(metric.interval_ms.val)),
                               "type", Bytes("count"))]
         ELSE [step |-> "continue"]
    ELSE IF metric.value.variant \in {"Gauge", "Counter"} /\ metric.kind = "Absolute"
    THEN [step |-> "push", data |-> Insert(metric_data, "type", Bytes("gauge"))]
    ELSE [step |-> "push", data |-> metric_data]

\* the loop of try_from over buf_events[from ..], metric_array so far
RECURSIVE try_from_loop(_, _, _, _)
try_from_loop(events, from, metric_array, now) ==
    IF from > Len(events)
    THEN IF metric_array # << >>
         THEN Ok(<< [metrics |-> metric_array] >>)
         ELSE Err("No valid metrics to generate")
    ELSE LET event == events[from] IN
         IF event.type # "Metric"
         THEN try_from_loop(events, from + 1, metric_array, now)
         ELSE LET values == metric_data_values(event, now) IN
              IF values.tag = "Err" THEN values
              ELSE LET typed == metric_data_typed(event, values.val) IN
                   IF typed.step = "continue"
                   THEN try_from_loop(events, from + 1, metric_array, now)
                   ELSE try_from_loop(events, from + 1,
                                      Append(metric_array, typed.data), now)

\* impl TryFrom<Vec<Event>> for MetricsApiModel
try_from(events, now) == try_from_loop(events, 1, << >>, now)

MetricsIdle ==
    /\ buf_events = << >>
    /\ converted = None

InitMetrics ==
    /\ buf_events \in SeqsOver(Events, MaxEvents)
    /\ converted = None

TryFrom ==
    /\ converted = None
    /\ \E now \in Nows : converted' = try_from(buf_events, now)
    /\ UNCHANGED buf_events
    /\ UNCHANGED << resolveVars, newVars >>

(* ---------------------------- specifications --------------------------- *)
Init == InitResolve /\ NewIdle /\ MetricsIdle

Next ==
    \/ \E i \in Indices : Resolve(i)
    \/ ResolveBatch
    \/ InnerResolveBatch
    \/ InnerReturn
    \/ Read
    \/ Write
    \/ Return

Spec == Init /\ [][Next]_vars

InitConstruct == ResolveIdle /\ InitNew /\ MetricsIdle

NextConstruct ==
    \/ New
    \/ TypeDef
    \/ Code
    \/ Labels
    \/ Notes

SpecConstruct == InitConstruct /\ [][NextConstruct]_vars

InitConvert == ResolveIdle /\ NewIdle /\ InitMetrics

NextConvert == TryFrom

SpecConvert == InitConvert /\ [][NextConvert]_vars

(* ---------------------------- properties: resolution ------------------- *)
Selected == Range(selection_vector)
InnerResult(i) == inner_resolve(inner_type_def, records[i])
AccessesOf(who, op, index) ==
    { n \in DOMAIN accesses : accesses[n] = Access(who, op, index) }

\* C1: once resolve_batch has returned, the slot of every selected index
\* holds what the scalar Not::resolve yields on that record alone, be it a
\* value or a failure.
C1_ScalarBatchEquivalence ==
    pc = "done" =>
        \A i \in Selected :
            resolved_values[i] = resolve(inner_type_def, records[i])

\* a finished batch in which one selected slot holds a value and another a failure
C1_Witness ==
    /\ pc = "done"
    /\ \E i, j \in Selected :
        /\ resolved_values[i].tag = "Ok"
        /\ resolved_values[j].tag = "Err"
        /\ resolved_values[j] = resolve(inner_type_def, records[j])

\* C2: at every point of a resolve_batch call, a slot whose index is not in
\* the selection vector has been neither read nor written and still holds
\* its pre-call value, so no failure appears for a record that was not
\* selected even when its operand is not a boolean.
C2_BatchFrame ==
    \A i \in Indices \ Selected :
        /\ resolved_values[i] = pre_values[i]
        /\ \A n \in DOMAIN accesses : accesses[n].index # i

\* records [{a: true}, {a: "x"}, {a: false}], selection [0, 2], batch finished:
\* slot 0 = false, slot 2 = true, slot 1 as before the call
C2_Witness ==
    /\ pc = "done"
    /\ selection_vector = << 0, 2 >>
    /\ records[0].a = Boolean(TRUE)
    /\ records[1].a = Bytes("x")
    /\ records[2].a = Boolean(FALSE)
    /\ resolved_values[0] = Ok(Boolean(FALSE))
    /\ resolved_values[2] = Ok(Boolean(TRUE))
    /\ resolved_values[1] = pre_values[1]

\* C4: the scalar Not::resolve yields false where the child resolves to
\* true, true where the child resolves to false, and the child's own failure,
\* unchanged, where the child fails.
C4_ScalarCorrectness ==
    pc = "scalar" =>
        LET child == InnerResult(scalar.index) IN
        /\ child = Ok(Boolean(TRUE)) => scalar.result = Ok(Boolean(FALSE))
        /\ child = Ok(Boolean(FALSE)) => scalar.result = Ok(Boolean(TRUE))
        /\ child.tag = "Err" => scalar.result = child

\* a scalar resolve of !true that yielded false
C4_Witness ==
    /\ pc = "scalar"
    /\ InnerResult(scalar.index) = Ok(Boolean(TRUE))
    /\ scalar.result = Ok(Boolean(FALSE))

\* C6: in batch mode every selected index the loop has passed holds the
\* child's failure unchanged where the child failed and the negated value
\* where the child yielded a boolean; when the call returns, every selected
\* index was written once by the child and once by the negation, whatever
\* failures the other indices hold.
C6_FailureIsolation ==
    /\ \A p \in DOMAIN selection_vector :
        (pc = "done" \/ (pc \in {"loop", "write"} /\ p < pos)) =>
            LET i == selection_vector[p]
                child == InnerResult(i)
            IN /\ child.tag = "Err" => resolved_values[i] = child
               /\ (child.tag = "Ok" /\ child.val.kind = "boolean") =>
                      resolved_values[i] = Ok(Boolean(~ child.val.b))
    /\ pc = "done" =>
        \A i \in Selected :
            /\ Cardinality(AccessesOf("inner", "write", i)) = 1
            /\ Cardinality(AccessesOf("not", "write", i)) = 1

\* a finished batch where an earlier selected index holds the child's failure
\* and a later one its negated value
C6_Witness ==
    /\ pc = "done"
    /\ \E p, q \in DOMAIN selection_vector :
        /\ p < q
        /\ InnerResult(selection_vector[p]).tag = "Err"
        /\ resolved_values[selection_vector[p]] = Err(InnerFailure)
        /\ InnerResult(selection_vector[q]) = Ok(Boolean(FALSE))
        /\ resolved_values[selection_vector[q]] = Ok(Boolean(TRUE))

\* C7: if the static type of the Not node is infallible, neither the scalar
\* resolve nor the batch resolve at a selected index ends in a failure.
C7_InfallibleNeverFails ==
    ~ is_fallible(type_def(inner_type_def)) =>
        /\ pc = "scalar" => scalar.result.tag = "Ok"
        /\ pc = "done" => \A i \in Selected : resolved_values[i].tag = "Ok"

\* C9: within one resolve_batch call the child has written every selected
\* slot before the negation touches any; the negation then reads and writes
\* the selected indices one at a time, each read followed at once by the
\* write of the same index, each index once; and a slot the child left a
\* boolean in ends negated exactly once.
C9_SlotOwnershipOrder ==
    LET n == Len(selection_vector)
        notAccesses == { m \in DOMAIN accesses : accesses[m].who = "not" }
    IN
    /\ notAccesses # {} =>
        /\ Len(accesses) >= n
        /\ \A p \in 1 .. n : accesses[p] = Access("inner", "write", selection_vector[p])
        /\ \A m \in notAccesses : m > n
    /\ \A m \in notAccesses :
        LET p == (m - n + 1) \div 2 IN
        /\ p \in 1 .. n
        /\ accesses[m] = Access("not", IF (m - n) % 2 = 1 THEN "read" ELSE "write",
                                selection_vector[p])
    /\ \A i \in Indices :
        /\ Cardinality(AccessesOf("not", "read", i)) <= 1
        /\ Cardinality(AccessesOf("not", "write", i)) <= 1
    /\ pc = "write" => accesses[Len(accesses)].op = "read"
    /\ pc = "done" =>
        /\ Len(accesses) = 3 * n
        /\ \A i \in Selected :
            InnerResult(i) \in {Ok(Boolean(TRUE)), Ok(Boolean(FALSE))} =>
                resolved_values[i] = Ok(Boolean(~ InnerResult(i).val.b))

\* the negation is between the read and the write of its second index, after
\* the child wrote both
C9_Witness ==
    /\ pc = "write"
    /\ pos = 2
    /\ Len(selection_vector) >= 2
    /\ Len(accesses) = Len(selection_vector) + 3
    /\ resolved = InnerResult(selection_vector[2])

(* ---------------------------- properties: construction ----------------- *)
\* C3: Not::new returns Ok exactly when the operand's static kind is exactly
\* boolean; otherwise (a union containing boolean included) it returns the
\* NonBoolean error, whose code is 660 and which carries the span of the `!`
\* and the span of the operand, and there is no node.
C3_PreconditionEnforcement ==
    built # None =>
        /\ (built.tag = "Ok") <=> (node.expr.type_def.kind = {"boolean"})
        /\ built.tag = "Ok" => built.val.inner = node.expr
        /\ built.tag # "Ok" =>
            /\ built.tag = "Err"
            /\ built.err.variant.name = "NonBoolean"
            /\ built.err.variant.kind = node.expr.type_def.kind
            /\ built.err.not_span = not_span
            /\ built.err.expr_span = node.span
            /\ out.method = "code" => out.ret = 660

\* construction over a boolean-or-string operand failed and code() was asked
C3_Witness ==
    /\ node.expr.type_def.kind = {"boolean", "bytes"}
    /\ built.tag = "Err"
    /\ built.err.expr_span # built.err.not_span
    /\ out.method = "code"

\* C5: the fallibility of the Not node's type definition equals the
\* fallibility of its child's.
C5_FallibilityPropagation ==
    out.method = "type_def" =>
        /\ is_fallible(out.ret) = is_fallible(node.expr.type_def)
        /\ out.ret.kind = {"boolean"}

\* type_def() of a Not node over a fallible child
C5_Witness ==
    /\ out.method = "type_def"
    /\ is_fallible(node.expr.type_def)
    /\ is_fallible(out.ret)

\* C8: labels() of the NonBoolean error is the primary label at the `!` span
\* with the fixed message followed by the context label at the operand span
\* reporting the operand's kind; notes() is the coerce-value hint followed by
\* the see-docs note for the coercion functions anchor; code() is 660; on
\* every call.
C8_DiagnosticContent ==
    /\ out.method = "labels" =>
        out.ret = << [role |-> "primary",
                      message |-> "negation only works on boolean values",
                      span |-> not_span],
                     [role |-> "context",
                      message |-> "this expression resolves to "
                                    \o KindDisplay(node.expr.type_def.kind),
                      span |-> node.span] >>
    /\ out.method = "notes" =>
        out.ret = << [note |-> "CoerceValue"],
                     [note |-> "SeeDocs", title |-> "type coercion",
                      url |-> [docs |-> "functions", anchor |-> "#coerce-functions"]] >>
    /\ out.method = "code" => out.ret = 660

\* labels() of the error of a negation over a string operand
C8_Witness ==
    /\ out.method = "labels"
    /\ node.expr.type_def.kind = {"bytes"}
    /\ Len(out.ret) = 2
    /\ out.ret[1].span = not_span
    /\ out.ret[2].message = "this expression resolves to string"

(* ---------------------------- properties: metrics model ---------------- *)
\* the events the conversion is said to make an entry of
Contributes(event) ==
    /\ event.type = "Metric"
    /\ event.value.variant \in {"Gauge", "Counter"}
    /\ ~ (/\ event.value.variant = "Counter"
          /\ event.kind = "Incremental"
          /\ event.interval_ms = None)

\* C10: when try_from returns Ok every entry of "metrics" has the keys name,
\* value, timestamp and type; only gauge and counter metrics, less the
\* incremental counters without an interval, contribute an entry; and the
\* result is Err("No valid metrics to generate") when no entry remains.
C10_OnlyCompleteEntries ==
    /\ converted.tag = "Ok" =>
        LET metric_array == converted.val[1].metrics IN
        /\ \A n \in DOMAIN metric_array :
            {"name", "value", "timestamp", "type"} \subseteq DOMAIN metric_array[n]
        /\ Len(metric_array)
            = Cardinality({ n \in DOMAIN buf_events : Contributes(buf_events[n]) })
    /\ (/\ converted # None
        /\ converted # Err("NaN value not supported")
        /\ \A n \in DOMAIN buf_events : ~ Contributes(buf_events[n])) =>
            converted = Err("No valid metrics to generate")
=============================================================================
